---- MODULE Spec2Model ----
(***************************************************************************)
(* Fitness tracker: the client form controller (src/app/page.tsx) and the  *)
(* calorie-estimation gateway (src/unnamed/part_000, the route handler).   *)
(*                                                                         *)
(* Text the program inspects character by character (form fields, the      *)
(* completion reply, a response body) is a sequence of one-character       *)
(* strings.  Text the program only passes around (error messages) is a     *)
(* TLA+ string.  A JavaScript value is a record [t, m, k, s]:              *)
(*   t = "undef" | "null" | "nan" | "inf" | "num" | "str" | "bool" | "obj" *)
(*   a number is m / 10^k (k minimal), an infinity has m = 1 or -1,        *)
(*   a boolean has m = 1 or 0, a string has its characters in s.           *)
(***************************************************************************)
EXTENDS Integers, Sequences, FiniteSets, TLC

\* ------------------------------------------------------------------------
\* Characters
\* ------------------------------------------------------------------------

DigitChars == <<"0", "1", "2", "3", "4", "5", "6", "7", "8", "9">>

HexChars ==
  <<"0", "1", "2", "3", "4", "5", "6", "7", "8", "9", "a", "b", "c", "d", "e", "f">>

UpperChars ==
  <<"A", "B", "C", "D", "E", "F", "G", "H", "I", "J", "K", "L", "M",
    "N", "O", "P", "Q", "R", "S", "T", "U", "V", "W", "X", "Y", "Z">>

LowerChars ==
  <<"a", "b", "c", "d", "e", "f", "g", "h", "i", "j", "k", "l", "m",
    "n", "o", "p", "q", "r", "s", "t", "u", "v", "w", "x", "y", "z">>

Range(f) == {f[i] : i \in DOMAIN f}

IsDigit(c) == c \in Range(DigitChars)

\* White space as String.prototype.trim and the regular expression \s see it.
IsSpace(c) == c \in {" ", "\t", "\n", "\r"}

DigitVal(c) == (CHOOSE i \in DOMAIN DigitChars : DigitChars[i] = c) - 1

\* String.prototype.toLowerCase, one character.
LowerOf(c) ==
  IF c \in Range(UpperChars)
  THEN LowerChars[CHOOSE i \in DOMAIN UpperChars : UpperChars[i] = c]
  ELSE c

ToLowerCase(s) == [i \in DOMAIN s |-> LowerOf(s[i])]

HexVal(c) == (CHOOSE i \in DOMAIN HexChars : HexChars[i] = LowerOf(c)) - 1

IsHex(c) == LowerOf(c) \in Range(HexChars)

\* ------------------------------------------------------------------------
\* Scanning
\* ------------------------------------------------------------------------

RECURSIVE SpaceRun(_, _)
\* How many white-space characters s holds from index i on.
SpaceRun(s, i) ==
  IF i <= Len(s) /\ IsSpace(s[i]) THEN 1 + SpaceRun(s, i + 1) ELSE 0

RECURSIVE SpaceRunBack(_, _)
\* How many white-space characters s holds from index i backwards.
SpaceRunBack(s, i) ==
  IF i >= 1 /\ IsSpace(s[i]) THEN 1 + SpaceRunBack(s, i - 1) ELSE 0

RECURSIVE DigitRun(_, _)
DigitRun(s, i) ==
  IF i <= Len(s) /\ IsDigit(s[i]) THEN 1 + DigitRun(s, i + 1) ELSE 0

RECURSIVE HexRun(_, _)
HexRun(s, i) ==
  IF i <= Len(s) /\ IsHex(s[i]) THEN 1 + HexRun(s, i + 1) ELSE 0

RECURSIVE DigitsValue(_, _, _)
\* The decimal value of the n digits of s that start at index i.
DigitsValue(s, i, n) ==
  IF n = 0 THEN 0
  ELSE 10 * DigitsValue(s, i, n - 1) + DigitVal(s[i + n - 1])

RECURSIVE HexValue(_, _, _)
HexValue(s, i, n) ==
  IF n = 0 THEN 0
  ELSE 16 * HexValue(s, i, n - 1) + HexVal(s[i + n - 1])

RECURSIVE Pow10(_)
Pow10(k) == IF k = 0 THEN 1 ELSE 10 * Pow10(k - 1)

\* String.prototype.trim
Trim(s) ==
  LET a == SpaceRun(s, 1)
      b == SpaceRunBack(s, Len(s))
  IN IF a = Len(s) THEN <<>> ELSE SubSeq(s, a + 1, Len(s) - b)

\* String.prototype.startsWith
StartsWith(s, p) == Len(s) >= Len(p) /\ SubSeq(s, 1, Len(p)) = p

\* s from index i on.
From(s, i) == SubSeq(s, i, Len(s))

\* ------------------------------------------------------------------------
\* JavaScript values
\* ------------------------------------------------------------------------

Undef == [t |-> "undef", m |-> 0, k |-> 0, s |-> <<>>]
Null == [t |-> "null", m |-> 0, k |-> 0, s |-> <<>>]
NaN == [t |-> "nan", m |-> 0, k |-> 0, s |-> <<>>]
Obj == [t |-> "obj", m |-> 0, k |-> 0, s |-> <<>>]
Inf(sign) == [t |-> "inf", m |-> sign, k |-> 0, s |-> <<>>]
Str(chars) == [t |-> "str", m |-> 0, k |-> 0, s |-> chars]
Bool(b) == [t |-> "bool", m |-> IF b THEN 1 ELSE 0, k |-> 0, s |-> <<>>]

RECURSIVE Num(_, _)
\* The number m / 10^k, with k made minimal.
Num(m, k) ==
  IF k > 0 /\ m % 10 = 0 THEN Num(m \div 10, k - 1)
  ELSE [t |-> "num", m |-> m, k |-> k, s |-> <<>>]

Whole(n) == Num(n, 0)

\* ToBoolean
Truthy(v) ==
  CASE v.t \in {"undef", "null", "nan"} -> FALSE
    [] v.t = "num" -> v.m # 0
    [] v.t = "bool" -> v.m = 1
    [] v.t = "str" -> v.s # <<>>
    [] OTHER -> TRUE

IsNumeric(v) == v.t \in {"num", "inf", "nan"}

\* v > 0 for a numeric v (every comparison with NaN is false).
Positive(v) == (v.t = "num" /\ v.m > 0) \/ (v.t = "inf" /\ v.m > 0)

\* v <= 0 for a numeric v.
NonPositive(v) == (v.t = "num" /\ v.m <= 0) \/ (v.t = "inf" /\ v.m < 0)

\* Number.isInteger
IsInteger(v) == v.t = "num" /\ v.k = 0

InfinityWord == <<"I", "n", "f", "i", "n", "i", "t", "y">>

\* StrDecimalLiteral read from index i of s: [ok, v, next], next being the
\* index after the literal.  The scan goes sign, digits, fraction, exponent;
\* each step hands what it read to the next.
ScanDone(sgn, mant, k, next) ==
  [ok |-> TRUE,
   v |-> IF k >= 0 THEN Num(sgn * mant, k) ELSE Num(sgn * mant * Pow10(-k), 0),
   next |-> next]

\* The exponent's digits start at j3; without a digit the "e" is not read.
ScanExpDigits(s, sgn, mant, n2, j2, j3, eSgn) ==
  LET n3 == DigitRun(s, j3)
  IN IF n3 = 0 THEN ScanDone(sgn, mant, n2, j2)
     ELSE ScanDone(sgn, mant, n2 - eSgn * DigitsValue(s, j3, n3), j3 + n3)

\* The mantissa mant with n2 fraction digits ended before index j2.
ScanExp(s, sgn, mant, n2, j2) ==
  IF j2 <= Len(s) /\ s[j2] \in {"e", "E"}
  THEN IF j2 + 1 <= Len(s) /\ s[j2 + 1] \in {"+", "-"}
       THEN ScanExpDigits(s, sgn, mant, n2, j2, j2 + 2,
                          IF s[j2 + 1] = "-" THEN -1 ELSE 1)
       ELSE ScanExpDigits(s, sgn, mant, n2, j2, j2 + 1, 1)
  ELSE ScanDone(sgn, mant, n2, j2)

\* n1 integer digits from j, then (dot) a point and n2 fraction digits.
ScanFrac(s, i, j, sgn, n1, dot, n2) ==
  IF n1 = 0 /\ n2 = 0 THEN [ok |-> FALSE, v |-> NaN, next |-> i]
  ELSE ScanExp(s, sgn,
               DigitsValue(s, j, n1) * Pow10(n2) + DigitsValue(s, j + n1 + 1, n2),
               n2,
               IF dot THEN j + n1 + 1 + n2 ELSE j + n1)

ScanInt(s, i, j, sgn, n1) ==
  IF j + n1 <= Len(s) /\ s[j + n1] = "."
  THEN ScanFrac(s, i, j, sgn, n1, TRUE, DigitRun(s, j + n1 + 1))
  ELSE ScanFrac(s, i, j, sgn, n1, FALSE, 0)

ScanSigned(s, i, j, sgn) ==
  IF StartsWith(From(s, j), InfinityWord)
  THEN [ok |-> TRUE, v |-> Inf(sgn), next |-> j + Len(InfinityWord)]
  ELSE ScanInt(s, i, j, sgn, DigitRun(s, j))

ScanDecimal(s, i) ==
  IF i <= Len(s) /\ s[i] \in {"+", "-"}
  THEN ScanSigned(s, i, i + 1, IF s[i] = "-" THEN -1 ELSE 1)
  ELSE ScanSigned(s, i, i, 1)

\* parseFloat(v): ToString(v), leading white space skipped, the longest
\* prefix that is a StrDecimalLiteral.
ParseFloat(v) ==
  CASE IsNumeric(v) -> v
    [] v.t = "str" ->
         LET r == ScanDecimal(v.s, 1 + SpaceRun(v.s, 1))
         IN IF r.ok THEN r.v ELSE NaN
    [] OTHER -> NaN

\* parseInt(text) with no radix: white space, a sign, 0x for radix 16, then
\* the leading run of digits; NaN when there is none.
ParseIntDigits(s, j, sgn) ==
  IF StartsWith(From(s, j), <<"0", "x">>) \/ StartsWith(From(s, j), <<"0", "X">>)
  THEN IF HexRun(s, j + 2) = 0 THEN NaN
       ELSE Whole(sgn * HexValue(s, j + 2, HexRun(s, j + 2)))
  ELSE IF DigitRun(s, j) = 0 THEN NaN
       ELSE Whole(sgn * DigitsValue(s, j, DigitRun(s, j)))

ParseIntFrom(s, i) ==
  IF i <= Len(s) /\ s[i] \in {"+", "-"}
  THEN ParseIntDigits(s, i + 1, IF s[i] = "-" THEN -1 ELSE 1)
  ELSE ParseIntDigits(s, i, 1)

ParseInt(s) == ParseIntFrom(s, 1 + SpaceRun(s, 1))

\* StringToNumber: the whole trimmed text must be a numeric literal.
StringToNumberOf(s, r) ==
  IF s = <<>> THEN Whole(0)
  ELSE IF (StartsWith(s, <<"0", "x">>) \/ StartsWith(s, <<"0", "X">>))
          /\ Len(s) > 2 /\ HexRun(s, 3) = Len(s) - 2
  THEN Whole(HexValue(s, 3, Len(s) - 2))
  ELSE IF r.ok /\ r.next = Len(s) + 1 THEN r.v
  ELSE NaN

StringToNumberTrimmed(s) == StringToNumberOf(s, ScanDecimal(s, 1))

StringToNumber(chars) == StringToNumberTrimmed(Trim(chars))

\* ToNumber
ToNumber(v) ==
  CASE IsNumeric(v) -> v
    [] v.t = "null" -> Whole(0)
    [] v.t = "bool" -> Whole(v.m)
    [] v.t = "str" -> StringToNumber(v.s)
    [] OTHER -> NaN

\* The global isNaN
IsNaN(v) == ToNumber(v).t = "nan"

\* Math.round: floor(x + 1/2)
RoundNumber(x) ==
  IF x.t = "num"
  THEN Whole((2 * x.m + Pow10(x.k)) \div (2 * Pow10(x.k)))
  ELSE x

MathRound(v) == RoundNumber(ToNumber(v))

\* JSON.stringify followed by JSON.parse, for one property value: a NaN or
\* an infinity becomes null; undefined stays absent.
JsonValue(v) == IF v.t \in {"nan", "inf"} THEN Null ELSE v

\* ------------------------------------------------------------------------
\* JSON.parse, for the texts built of objects, strings, numbers and the
\* three literals.  Arrays and escape sequences are outside the alphabet of
\* the sampled texts and are not read.
\* ------------------------------------------------------------------------

CaloriesKey == <<"c", "a", "l", "o", "r", "i", "e", "s">>
ExplanationKey == <<"e", "x", "p", "l", "a", "n", "a", "t", "i", "o", "n">>
TrueWord == <<"t", "r", "u", "e">>
FalseWord == <<"f", "a", "l", "s", "e">>
NullWord == <<"n", "u", "l", "l">>

\* A parse result: ok, the index after the value, the value, and for an
\* object its properties "calories" and "explanation".
JsonFail == [ok |-> FALSE, next |-> 0, v |-> Undef, cal |-> Undef, expl |-> Undef]

JsonPrim(v, next) ==
  [ok |-> TRUE, next |-> next, v |-> v, cal |-> Undef, expl |-> Undef]

RECURSIVE StrEnd(_, _)
\* The index of the quote that closes a string whose text starts at i; 0
\* when there is none or a character no JSON string may hold comes first.
StrEnd(s, i) ==
  IF i > Len(s) THEN 0
  ELSE IF s[i] = "\"" THEN i
  ELSE IF s[i] \in {"\\", "\n", "\t", "\r"} THEN 0
  ELSE StrEnd(s, i + 1)

\* A JSON number at index i: its digits are n1 from j, and r is what the
\* decimal scan reads there.
JsonNumberScan(s, j, n1, dot, r) ==
  IF n1 = 0 \/ (n1 > 1 /\ s[j] = "0") \/ (dot /\ DigitRun(s, j + n1 + 1) = 0)
  THEN JsonFail
  ELSE JsonPrim(r.v, r.next)

JsonNumberDigits(s, i, j, n1) ==
  JsonNumberScan(s, j, n1, j + n1 <= Len(s) /\ s[j + n1] = ".", ScanDecimal(s, i))

JsonNumberFrom(s, i, j) == JsonNumberDigits(s, i, j, DigitRun(s, j))

JsonNumberAt(s, i) == JsonNumberFrom(s, i, IF s[i] = "-" THEN i + 1 ELSE i)

RECURSIVE JsonValueAt(_, _)
RECURSIVE JsonMembers(_, _, _, _)

\* After a member's value, at index d: the closing brace or the next member.
JsonNext(s, d, cal, expl) ==
  IF d > Len(s) THEN JsonFail
  ELSE IF s[d] = "}"
  THEN [ok |-> TRUE, next |-> d + 1, v |-> Obj, cal |-> cal, expl |-> expl]
  ELSE IF s[d] = "," THEN JsonMembers(s, d + 1 + SpaceRun(s, d + 1), cal, expl)
  ELSE JsonFail

\* A later member of the same name replaces an earlier one.
JsonAfterValue(s, key, val, cal, expl) ==
  IF ~val.ok THEN JsonFail
  ELSE JsonNext(s, val.next + SpaceRun(s, val.next),
                IF key = CaloriesKey THEN val.v ELSE cal,
                IF key = ExplanationKey THEN val.v ELSE expl)

JsonColon(s, key, c, cal, expl) ==
  IF c > Len(s) \/ s[c] # ":" THEN JsonFail
  ELSE JsonAfterValue(s, key, JsonValueAt(s, c + 1), cal, expl)

\* A member whose key opens at index i and closes at index e.
JsonMember(s, i, e, cal, expl) ==
  IF e = 0 THEN JsonFail
  ELSE JsonColon(s, SubSeq(s, i + 1, e - 1), e + 1 + SpaceRun(s, e + 1), cal, expl)

\* The members of an object from index i (its first key) to its closing brace.
JsonMembers(s, i, cal, expl) ==
  IF i > Len(s) \/ s[i] # "\"" THEN JsonFail
  ELSE JsonMember(s, i, StrEnd(s, i + 1), cal, expl)

JsonStringAt(s, i, e) ==
  IF e = 0 THEN JsonFail ELSE JsonPrim(Str(SubSeq(s, i + 1, e - 1)), e + 1)

JsonObjectAt(s, j) ==
  IF j <= Len(s) /\ s[j] = "}"
  THEN [ok |-> TRUE, next |-> j + 1, v |-> Obj, cal |-> Undef, expl |-> Undef]
  ELSE JsonMembers(s, j, Undef, Undef)

JsonLiteralAt(i, rest) ==
  IF StartsWith(rest, TrueWord) THEN JsonPrim(Bool(TRUE), i + Len(TrueWord))
  ELSE IF StartsWith(rest, FalseWord) THEN JsonPrim(Bool(FALSE), i + Len(FalseWord))
  ELSE IF StartsWith(rest, NullWord) THEN JsonPrim(Null, i + Len(NullWord))
  ELSE JsonFail

\* The value whose first character is at index i.
JsonValueFrom(s, i) ==
  IF i > Len(s) THEN JsonFail
  ELSE IF s[i] = "{" THEN JsonObjectAt(s, i + 1 + SpaceRun(s, i + 1))
  ELSE IF s[i] = "\"" THEN JsonStringAt(s, i, StrEnd(s, i + 1))
  ELSE IF s[i] = "-" \/ IsDigit(s[i]) THEN JsonNumberAt(s, i)
  ELSE JsonLiteralAt(i, From(s, i))

JsonValueAt(s, i0) == JsonValueFrom(s, i0 + SpaceRun(s, i0))

\* JSON.parse(text): the one value, white space around it, nothing else.
JsonWhole(s, r) ==
  IF r.ok /\ r.next + SpaceRun(s, r.next) = Len(s) + 1 THEN r ELSE JsonFail

JsonParse(s) == JsonWhole(s, JsonValueAt(s, 1))

RECURSIVE FirstDigit(_, _)
\* The index of the first digit of s at or after i; 0 when there is none.
FirstDigit(s, i) ==
  IF i > Len(s) THEN 0
  ELSE IF IsDigit(s[i]) THEN i
  ELSE FirstDigit(s, i + 1)

\* ------------------------------------------------------------------------
\* The gateway: POST of the route handler (src/unnamed/part_000)
\* ------------------------------------------------------------------------

\* A request body as request.json() gives it: kind "malformed" when the text
\* is no JSON (request.json() rejects), "null" for the JSON null, "object"
\* otherwise, with the properties the handler destructures (absent ones
\* undefined).
Body(wt, dur, rp, pace, wgt, unit) ==
  [kind |-> "object", workoutType |-> wt, duration |-> dur, reps |-> rp,
   runningPace |-> pace, weight |-> wgt, weightUnit |-> unit]

MalformedBody ==
  [kind |-> "malformed", workoutType |-> Undef, duration |-> Undef, reps |-> Undef,
   runningPace |-> Undef, weight |-> Undef, weightUnit |-> Undef]

NullBody ==
  [kind |-> "null", workoutType |-> Undef, duration |-> Undef, reps |-> Undef,
   runningPace |-> Undef, weight |-> Undef, weightUnit |-> Undef]

\* A response: its status and the properties of its JSON body.  error = ""
\* and details = "" stand for a body without that property.  status 0 is
\* "no response".
NoResp ==
  [status |-> 0, error |-> "", details |-> "", calories |-> Undef,
   explanation |-> Undef, workoutType |-> Undef, duration |-> Undef]

ErrorResp(status, msg, details) ==
  [status |-> status, error |-> msg, details |-> details, calories |-> Undef,
   explanation |-> Undef, workoutType |-> Undef, duration |-> Undef]

\* NextResponse.json(data) with the default status.
OkResp(calories, explanation, wt, dur) ==
  [status |-> 200, error |-> "", details |-> "", calories |-> JsonValue(calories),
   explanation |-> JsonValue(explanation), workoutType |-> JsonValue(wt),
   duration |-> JsonValue(dur)]

\* A thrown error: an APIError of the completion client or any other.
Thrown(api, msg, code) == [api |-> api, msg |-> msg, code |-> code]

\* A handler without its catch block: the error escapes and no JSON is sent.
CatchNothing(err) == NoResp

\* The catch block.
CatchResponse(err) ==
  IF err.api
  THEN ErrorResp(500, "OpenAI API error: " \o err.msg,
                 IF err.code # "" THEN "Error code: " \o err.code ELSE "")
  ELSE ErrorResp(500,
                 IF err.msg # "" THEN err.msg
                 ELSE "Failed to calculate calories. Please try again.",
                 "")

\* "Validate input": the response that rejects the body, NoResp when it passes.
ValidateDuration(durationNum) ==
  IF durationNum.t = "nan" \/ NonPositive(durationNum)
  THEN ErrorResp(400, "Duration must be a positive number", "")
  ELSE NoResp

\* A validation that takes reps in place of a duration.
ValidateInputOrReps(body) ==
  IF ~Truthy(body.workoutType) \/ (~Truthy(body.duration) /\ ~Truthy(body.reps))
  THEN ErrorResp(400, "Workout type and duration are required", "")
  ELSE IF Truthy(body.duration)
  THEN ValidateDuration(ParseFloat(body.duration))
  ELSE NoResp

ValidateInput(body) ==
  IF ~Truthy(body.workoutType) \/ ~Truthy(body.duration)
  THEN ErrorResp(400, "Workout type and duration are required", "")
  ELSE ValidateDuration(ParseFloat(body.duration))

KeyPrefix == <<"s", "k", "-">>

\* The two checks of process.env.OPENAI_API_KEY.
CheckApiKey(key) ==
  IF ~Truthy(key)
  THEN ErrorResp(500, "OpenAI API key is not configured. Please set OPENAI_API_KEY in your environment variables.", "")
  ELSE IF ~StartsWith(key.s, KeyPrefix)
  THEN ErrorResp(400, "Invalid API key format. OpenAI API keys should start with \"sk-\".", "")
  ELSE NoResp

RunWord == <<"r", "u", "n">>
RunningWord == <<"r", "u", "n", "n", "i", "n", "g">>

\* isRunning as the gateway computes it (no trim).
GatewayIsRunning(wt) == ToLowerCase(wt.s) \in {RunWord, RunningWord}

\* Building the prompt throws a TypeError when workoutType has no
\* toLowerCase, or when the workout is a run and a truthy runningPace has no
\* match method.  The prompt's text is not modelled.
PromptThrows(body) ==
  \/ body.workoutType.t # "str"
  \/ /\ GatewayIsRunning(body.workoutType)
     /\ Truthy(body.runningPace)
     /\ body.runningPace.t # "str"

\* POST up to the await of the completion call: [resp, call], resp the
\* response when the handler ends here, call whether the completion service
\* is called.
Stop(resp) == [resp |-> resp, call |-> FALSE]

AfterChecks(body, rejected, keyError) ==
  IF rejected.status # 0 THEN Stop(rejected)
  ELSE IF keyError.status # 0 THEN Stop(keyError)
  ELSE IF PromptThrows(body)
  THEN Stop(CatchResponse(Thrown(FALSE, "not a function", "")))
  ELSE [resp |-> NoResp, call |-> TRUE]

HandleRequest(body, key) ==
  IF body.kind = "malformed"
  THEN Stop(CatchResponse(Thrown(FALSE, "Unexpected token in JSON", "")))
  ELSE IF body.kind = "null"
  THEN Stop(CatchResponse(Thrown(FALSE, "Cannot destructure property of null", "")))
  ELSE AfterChecks(body, ValidateInput(body), CheckApiKey(key))

DefaultExplanation ==
  <<"C", "a", "l", "o", "r", "i", "e", "s", " ", "c", "a", "l", "c", "u", "l", "a", "t", "e", "d", " ", "b", "a", "s", "e", "d", " ", "o", "n", " ", "w", "o", "r", "k", "o", "u", "t", " ", "t", "y", "p", "e", " ", "a", "n", "d", " ", "d", "u", "r", "a", "t", "i", "o", "n", ".">>

\* What the completion call settles with: an APIError, or a completion whose
\* choices[0]?.message?.content is content.
ApiError(msg, code) == [kind |-> "apierror", msg |-> msg, code |-> code, content |-> Undef]
Completion(content) == [kind |-> "completion", msg |-> "", code |-> "", content |-> content]

\* The fallback of "Parse the response": responseContent.match(/\d+/), d
\* being the index of the first digit (0 for none).
FallbackReply(text, d) ==
  IF d # 0
  THEN [ok |-> TRUE, nullProp |-> FALSE,
        calories |-> ParseInt(SubSeq(text, d, d + DigitRun(text, d) - 1)),
        explanation |-> Str(text)]
  ELSE [ok |-> FALSE, nullProp |-> FALSE, calories |-> Undef, explanation |-> Undef]

\* r is what JSON.parse made of the text.
ParsedReply(text, r) ==
  IF r.ok
  THEN [ok |-> TRUE, nullProp |-> r.v.t = "null",
        calories |-> r.cal, explanation |-> r.expl]
  ELSE FallbackReply(text, FirstDigit(text, 1))

\* "Parse the response": [ok, calories, explanation], ok false when the
\* fallback finds no digit.  Reading .calories of null throws (nullProp).
ParseReply(text) == ParsedReply(text, JsonParse(text))

\* "Validate the result"
CaloriesRejected(calories) == ~Truthy(calories) \/ IsNaN(calories)

\* "Validate the result" and the response, for a reply that was parsed.
RespondToReply(body, parsed) ==
  IF ~parsed.ok
  THEN CatchResponse(Thrown(FALSE, "Could not parse OpenAI response", ""))
  ELSE IF parsed.nullProp
  THEN CatchResponse(Thrown(FALSE, "Cannot read properties of null", ""))
  ELSE IF CaloriesRejected(parsed.calories)
  THEN CatchResponse(Thrown(FALSE, "Invalid calorie calculation from OpenAI", ""))
  ELSE OkResp(MathRound(parsed.calories),
              IF Truthy(parsed.explanation) THEN parsed.explanation
              ELSE Str(DefaultExplanation),
              body.workoutType,
              ParseFloat(body.duration))

\* POST from the completion call's settling to the response.
CompleteRequest(body, outcome) ==
  IF outcome.kind = "apierror"
  THEN CatchResponse(Thrown(TRUE, outcome.msg, outcome.code))
  ELSE IF ~Truthy(outcome.content)
  THEN CatchResponse(Thrown(FALSE, "No response from OpenAI", ""))
  ELSE RespondToReply(body, ParseReply(outcome.content.s))

\* The whole of POST, for a caller that sees only the response.
PostFrom(body, outcome, h) ==
  IF h.call THEN CompleteRequest(body, outcome) ELSE h.resp

POST(body, key, outcome) == PostFrom(body, outcome, HandleRequest(body, key))

\* ------------------------------------------------------------------------
\* The client: Home of src/app/page.tsx
\* ------------------------------------------------------------------------

VARIABLES
  workoutType,     \* the form fields, each the text of its input
  duration,
  reps,
  runningPace,
  weight,
  weightUnit,
  isSubmitting,
  result,          \* the displayed result, NoResult for null
  error,           \* the displayed error, NoError for null
  workoutHistory,  \* the sequence of entries, newest first
  localStorage,    \* the two items the page keeps
  alertMsg,        \* the alert the latest handler raised, "" for none
  response,        \* what fetch settled with in the latest handler, else NoFetch
  net,             \* the bodies of the fetch calls not yet settled
  mounted,         \* whether the mount effects have run
  closureHistory,  \* the workoutHistory the latest handleSubmit run closed over
  gw               \* the gateway's handling of one request

vars ==
  <<workoutType, duration, reps, runningPace, weight, weightUnit, isSubmitting,
    result, error, workoutHistory, localStorage, alertMsg, response, net, mounted,
    closureHistory, gw>>

clientVars ==
  <<workoutType, duration, reps, runningPace, weight, weightUnit, isSubmitting,
    result, error, workoutHistory, localStorage, alertMsg, response, net, mounted,
    closureHistory>>

PushupWord == <<"p", "u", "s", "h", "u", "p">>
PushupsWord == <<"p", "u", "s", "h", "u", "p", "s">>
Kg == <<"k", "g">>
Lbs == <<"l", "b", "s">>

\* replace(/\s+/g, '').replace(/-/g, '')
StripSpacesAndHyphens(s) ==
  LET keep(c) == ~IsSpace(c) /\ c # "-"
  IN SelectSeq(s, keep)

\* A predicate without the prefix test.
IsPushUpExact(workout) ==
  StripSpacesAndHyphens(ToLowerCase(Trim(workout))) \in {PushupWord, PushupsWord}

\* isPushUp
IsPushUp(workout) ==
  LET trimmed == Trim(workout)
      normalized == StripSpacesAndHyphens(ToLowerCase(trimmed))
  IN IF workout = <<>> THEN FALSE
     ELSE IF trimmed = <<>> THEN FALSE
     ELSE \/ normalized = PushupWord
          \/ normalized = PushupsWord
          \/ StartsWith(normalized, PushupWord)

\* isRunning as handleSubmit and the form compute it (trimmed).
IsRunning(workout) == ToLowerCase(Trim(workout)) \in {RunWord, RunningWord}

NoResult ==
  [set |-> FALSE, calories |-> Undef, explanation |-> Undef,
   workoutType |-> Undef, duration |-> Undef, reps |-> Undef]

\* The data of a JSON response as setResult and addToHistory read it; the
\* gateway's body has no reps property.
DataOf(resp) ==
  [set |-> TRUE, calories |-> resp.calories, explanation |-> resp.explanation,
   workoutType |-> resp.workoutType, duration |-> resp.duration, reps |-> Undef]

NoError == [msg |-> "", details |-> <<>>]

\* An entry that loses the duration of the response.
NewWorkoutWithoutDuration(id, data) ==
  [id |-> id, workoutType |-> data.workoutType, duration |-> Undef,
   reps |-> data.reps, calories |-> data.calories, explanation |-> data.explanation]

\* The entry addToHistory builds (its timestamp, which nothing reads back
\* but the display, is left out).
NewWorkout(id, data) ==
  [id |-> id, workoutType |-> data.workoutType, duration |-> data.duration,
   reps |-> data.reps, calories |-> data.calories, explanation |-> data.explanation]

\* An item of localStorage: absent, a text JSON.parse rejects, or the text
\* JSON.stringify gave for a list.
Absent == [kind |-> "absent", list |-> <<>>]
Corrupt == [kind |-> "corrupt", list |-> <<>>]

StringifyEntry(e) ==
  [id |-> e.id, workoutType |-> JsonValue(e.workoutType),
   duration |-> JsonValue(e.duration), reps |-> JsonValue(e.reps),
   calories |-> JsonValue(e.calories), explanation |-> JsonValue(e.explanation)]

\* JSON.stringify(workoutHistory)
Stringify(list) ==
  [kind |-> "list", list |-> [i \in DOMAIN list |-> StringifyEntry(list[i])]]

\* A save effect without its length check: it writes whatever the list is.
SaveHistoryAlways(history, storage) ==
  [storage EXCEPT !.history = Stringify(history)]

\* The effect "save workout history", run after a render that changed it.
SaveHistoryEffect(history, storage) ==
  IF Len(history) > 0
  THEN [storage EXCEPT !.history = Stringify(history)]
  ELSE storage

\* A page that never saves the weight unit.
SaveUnitNever(unit, storage) == storage

\* The effect "save weight unit".
SaveUnitEffect(unit, storage) == [storage EXCEPT !.unit = Str(unit)]

\* A reps check that forgets Number.isInteger.
RepsAlertAnyNumber(repsNum) ==
  IF repsNum.t = "nan" \/ NonPositive(repsNum)
  THEN "Please enter a valid number of reps (must be a positive whole number)"
  ELSE ""

\* The validation of handleSubmit: the alert it raises, "" when it passes.
RepsAlert(repsNum) ==
  IF repsNum.t = "nan" \/ NonPositive(repsNum) \/ ~IsInteger(repsNum)
  THEN "Please enter a valid number of reps (must be a positive whole number)"
  ELSE ""

DurationAlert(durationNum) ==
  IF durationNum.t = "nan" \/ NonPositive(durationNum)
  THEN "Please enter a valid duration (in minutes)"
  ELSE ""

SubmitAlert(wt, dur, rp) ==
  IF Trim(wt) = <<>> THEN "Please fill in the workout type"
  ELSE IF IsPushUp(wt)
  THEN IF Trim(rp) = <<>> THEN "Please fill in the number of reps"
       ELSE RepsAlert(ParseFloat(Str(rp)))
  ELSE IF Trim(dur) = <<>> THEN "Please fill in the duration"
       ELSE DurationAlert(ParseFloat(Str(dur)))

\* The object handleSubmit gives to JSON.stringify.
RequestObject(wt, dur, rp, pace, wgt, unit) ==
  Body(Str(Trim(wt)),
       IF IsPushUp(wt) THEN Undef ELSE ParseFloat(Str(dur)),
       IF IsPushUp(wt) THEN ParseInt(rp) ELSE Undef,
       IF IsRunning(wt) /\ Trim(pace) # <<>> THEN Str(Trim(pace)) ELSE Undef,
       IF Trim(wgt) # <<>> THEN Str(Trim(wgt)) ELSE Undef,
       IF Trim(wgt) # <<>> THEN Str(unit) ELSE Undef)

\* The body on the wire, as request.json() reads it back.
OnWire(o) ==
  Body(JsonValue(o.workoutType), JsonValue(o.duration), JsonValue(o.reps),
       JsonValue(o.runningPace), JsonValue(o.weight), JsonValue(o.weightUnit))

RequestBody(wt, dur, rp, pace, wgt, unit) ==
  OnWire(RequestObject(wt, dur, rp, pace, wgt, unit))

\* ------------------------------------------------------------------------
\* Sampled inputs
\* ------------------------------------------------------------------------

\* The longest history the model lets a successful submission reach.
MaxHistory == 2

\* response.text().slice(0, 200)
ErrorPageSlice == 200

\* What Date.now().toString() can give (two reads may give the same text).
Timestamps == {"1700000000001", "1700000000002"}

\* What the user types, in the composed system.
TypedWorkouts ==
  {<<>>,
   <<"P", "u", "s", "h", "-", "U", "p", "s">>,
   <<" ", "R", "u", "n", " ">>}
TypedDurations ==
  {<<>>,
   <<"3", "0">>}
TypedReps ==
  {<<>>,
   <<"2", "0">>}
TypedPaces ==
  {<<>>,
   <<"5", ":", "3", "0">>}
TypedWeights ==
  {<<>>,
   <<"7", "0">>}
Units == {Kg, Lbs}

\* The values of process.env.OPENAI_API_KEY.
GoodKey == Str(<<"s", "k", "-", "t", "e", "s", "t">>)
BadKey == Str(<<"p", "k", "-", "t", "e", "s", "t">>)
ApiKeys == {Undef, Str(<<>>), GoodKey, BadKey}

\* The texts the completion service replies with.
ReplyTexts ==
  {<<"{", "\"", "c", "a", "l", "o", "r", "i", "e", "s", "\"", ":", "2", "5", "0", ".", "6", ",", "\"", "e", "x", "p", "l", "a", "n", "a", "t", "i", "o", "n", "\"", ":", "\"", "x", "\"", "}">>,
    <<"{", "\"", "c", "a", "l", "o", "r", "i", "e", "s", "\"", ":", "2", "5", "0", ".", "4", "}">>,
    <<"{", "\"", "c", "a", "l", "o", "r", "i", "e", "s", "\"", ":", "-", "5", "}">>,
    <<"{", "\"", "c", "a", "l", "o", "r", "i", "e", "s", "\"", ":", "0", "}">>,
    <<"{", "\"", "c", "a", "l", "o", "r", "i", "e", "s", "\"", ":", "0", ".", "4", "}">>,
    <<"{", "\"", "c", "a", "l", "o", "r", "i", "e", "s", "\"", ":", "\"", "3", "0", "0", "\"", "}">>,
    <<"{", "\"", "c", "a", "l", "o", "r", "i", "e", "s", "\"", ":", "\"", "a", "b", "c", "\"", "}">>,
    <<"{", "\"", "c", "a", "l", "o", "r", "i", "e", "s", "\"", ":", "n", "u", "l", "l", "}">>,
    <<"{", "\"", "c", "a", "l", "o", "r", "i", "e", "s", "\"", ":", "t", "r", "u", "e", "}">>,
    <<"{", "\"", "e", "x", "p", "l", "a", "n", "a", "t", "i", "o", "n", "\"", ":", "\"", "x", "\"", "}">>,
    <<"{", "}">>,
    <<"n", "u", "l", "l">>,
    <<"4", "8", "0">>,
    <<"a", "b", "o", "u", "t", " ", "4", "8", "0", " ", "k", "c", "a", "l">>,
    <<"n", "o", " ", "i", "d", "e", "a">>,
    <<"0", " ", "k", "c", "a", "l">>}

\* What the completion call can settle with.
Outcomes ==
  {ApiError("Rate limit reached", "rate_limit_exceeded"),
   ApiError("Connection error.", ""),
   Completion(Null), Completion(Str(<<>>))}
  \cup {Completion(Str(t)) : t \in ReplyTexts}

\* The outcomes the composed system draws from.
ComposedOutcomes ==
  {ApiError("Rate limit reached", "rate_limit_exceeded"),
   Completion(Str(<<"{", "\"", "c", "a", "l", "o", "r", "i", "e", "s", "\"", ":", "2", "5", "0", ".", "6", ",", "\"", "e", "x", "p", "l", "a", "n", "a", "t", "i", "o", "n", "\"", ":", "\"", "x", "\"", "}">>)),
   Completion(Str(<<"n", "o", " ", "i", "d", "e", "a">>))}

ComposedKeys == {GoodKey, BadKey}

\* An entry a previous session stored.
StoredEntry ==
  [id |-> "1699999999999", workoutType |-> Str(<<"y", "o", "g", "a">>), duration |-> Whole(45),
   reps |-> Undef, calories |-> Whole(180), explanation |-> Undef]

StoredHistories == {Absent, Corrupt, Stringify(<<StoredEntry>>)}
StoredUnits == {Null, Str(Kg), Str(Lbs)}

ErrorPageText == <<"<", "h", "t", "m", "l", ">", "B", "a", "d", " ", "G", "a", "t", "e", "w", "a", "y", "<", "/", "h", "t", "m", "l", ">">>

\* ------------------------------------------------------------------------
\* The client's operations
\* ------------------------------------------------------------------------

\* What fetch settles with: a rejection, or a response with its status, its
\* content type (JSON or not), its JSON data and its text.
Rejected(msg) ==
  [rejected |-> TRUE, msg |-> msg, jsonType |-> FALSE, status |-> 0,
   data |-> NoResp, text |-> <<>>]

ErrorPage(status, text) ==
  [rejected |-> FALSE, msg |-> "", jsonType |-> FALSE, status |-> status,
   data |-> NoResp, text |-> text]

NoFetch ==
  [rejected |-> FALSE, msg |-> "", jsonType |-> FALSE, status |-> 0,
   data |-> NoResp, text |-> <<>>]

FromGateway(resp) ==
  [rejected |-> FALSE, msg |-> "", jsonType |-> TRUE, status |-> resp.status,
   data |-> resp, text |-> <<>>]

\* The gateway before any request.
GwIdle ==
  [pc |-> "idle", body |-> NullBody, key |-> Undef, outcome |-> Completion(Undef),
   resp |-> NoResp, calls |-> 0, responses |-> 0]

fields == <<workoutType, duration, reps, runningPace, weight, weightUnit>>

\* A handler that raises no alert and awaits no fetch; the closure of a
\* handleSubmit run that has ended is gone.
Quiet ==
  /\ alertMsg' = ""
  /\ response' = NoFetch
  /\ closureHistory' = IF isSubmitting THEN closureHistory ELSE <<>>

\* The state of the first render, over the storage a previous session left.
Init ==
  /\ workoutType = <<>>
  /\ duration = <<>>
  /\ reps = <<>>
  /\ runningPace = <<>>
  /\ weight = <<>>
  /\ weightUnit = Lbs
  /\ isSubmitting = FALSE
  /\ result = NoResult
  /\ error = NoError
  /\ workoutHistory = <<>>
  /\ localStorage \in [history : StoredHistories, unit : StoredUnits]
  /\ alertMsg = ""
  /\ response = NoFetch
  /\ net = <<>>
  /\ mounted = FALSE
  /\ closureHistory = <<>>
  /\ gw = GwIdle

\* A load effect without its try/catch: an unparseable record ends the
\* effect before the weight unit is read.
MountWithoutCatch ==
  /\ ~mounted
  /\ LET saved == localStorage.history
         loaded == IF saved.kind = "list" THEN saved.list ELSE <<>>
         savedUnit == localStorage.unit
         unit == IF saved.kind # "corrupt" /\ Truthy(savedUnit)
                 THEN savedUnit.s ELSE Lbs
         first == SaveUnitEffect(weightUnit, localStorage)
     IN /\ workoutHistory' = loaded
        /\ weightUnit' = unit
        /\ localStorage' = SaveHistoryEffect(loaded, SaveUnitEffect(unit, first))
  /\ mounted' = TRUE
  /\ Quiet
  /\ UNCHANGED <<workoutType, duration, reps, runningPace, weight, isSubmitting,
                 result, error, net, gw>>

\* The effects of the first render, in the order they are declared (load,
\* save weight unit, save history), and those of the render the load causes.
Mount ==
  /\ ~mounted
  /\ LET saved == localStorage.history
         loaded == IF saved.kind = "list" THEN saved.list ELSE <<>>
         savedUnit == localStorage.unit
         unit == IF Truthy(savedUnit) THEN savedUnit.s ELSE Lbs
         first == SaveUnitEffect(weightUnit, localStorage)
     IN /\ workoutHistory' = loaded
        /\ weightUnit' = unit
        /\ localStorage' = SaveHistoryEffect(loaded, SaveUnitEffect(unit, first))
  /\ mounted' = TRUE
  /\ Quiet
  /\ UNCHANGED <<workoutType, duration, reps, runningPace, weight, isSubmitting,
                 result, error, net, gw>>

\* Every input of the form is disabled while a submission is pending.
InputEnabled == mounted /\ ~isSubmitting

SetWorkoutType(text) ==
  /\ InputEnabled
  /\ workoutType' = text
  /\ Quiet
  /\ UNCHANGED <<duration, reps, runningPace, weight, weightUnit, isSubmitting,
                 result, error, workoutHistory, localStorage, net, mounted, gw>>

\* The duration input is rendered when the workout is no push-up.
SetDuration(text) ==
  /\ InputEnabled
  /\ ~IsPushUp(workoutType)
  /\ duration' = text
  /\ Quiet
  /\ UNCHANGED <<workoutType, reps, runningPace, weight, weightUnit, isSubmitting,
                 result, error, workoutHistory, localStorage, net, mounted, gw>>

\* The reps input is rendered when the workout is a push-up.
SetReps(text) ==
  /\ InputEnabled
  /\ IsPushUp(workoutType)
  /\ reps' = text
  /\ Quiet
  /\ UNCHANGED <<workoutType, duration, runningPace, weight, weightUnit, isSubmitting,
                 result, error, workoutHistory, localStorage, net, mounted, gw>>

\* The pace, weight and unit inputs are rendered for a run.
SetRunningPace(text) ==
  /\ InputEnabled
  /\ IsRunning(workoutType)
  /\ runningPace' = text
  /\ Quiet
  /\ UNCHANGED <<workoutType, duration, reps, weight, weightUnit, isSubmitting,
                 result, error, workoutHistory, localStorage, net, mounted, gw>>

SetWeight(text) ==
  /\ InputEnabled
  /\ IsRunning(workoutType)
  /\ weight' = text
  /\ Quiet
  /\ UNCHANGED <<workoutType, duration, reps, runningPace, weightUnit, isSubmitting,
                 result, error, workoutHistory, localStorage, net, mounted, gw>>

\* The select, and the "save weight unit" effect of the render it causes.
SetWeightUnit(unit) ==
  /\ InputEnabled
  /\ IsRunning(workoutType)
  /\ weightUnit' = unit
  /\ localStorage' = SaveUnitEffect(unit, localStorage)
  /\ Quiet
  /\ UNCHANGED <<workoutType, duration, reps, runningPace, weight, isSubmitting,
                 result, error, workoutHistory, net, mounted, gw>>

\* A submit button that is never disabled.
AlwaysEnabled == TRUE

\* The submit button is disabled while a submission is pending.
SubmitEnabled == ~isSubmitting

\* handleSubmit up to the await of fetch.
Submit ==
  /\ mounted
  /\ SubmitEnabled
  /\ LET a == SubmitAlert(workoutType, duration, reps)
     IN IF a # ""
        THEN /\ alertMsg' = a
             /\ closureHistory' = <<>>
             /\ UNCHANGED <<isSubmitting, result, error, net>>
        ELSE /\ alertMsg' = ""
             /\ closureHistory' = workoutHistory
             /\ isSubmitting' = TRUE
             /\ result' = NoResult
             /\ error' = NoError
             /\ net' = Append(net, RequestBody(workoutType, duration, reps,
                                               runningPace, weight, weightUnit))
  /\ response' = NoFetch
  /\ UNCHANGED <<fields, workoutHistory, localStorage, mounted, gw>>

\* A success test that forgets response.ok.
SucceedsOnAnyStatus(f) == ~f.rejected /\ f.jsonType

\* response.ok
ResponseOk(f) == f.status \in 200..299

\* Whether handleSubmit takes the success path.
Succeeds(f) == ~f.rejected /\ f.jsonType /\ ResponseOk(f)

\* A catch block that logs the error and displays nothing.
NoFailureMessage(f) == NoError

\* The message handleSubmit's catch block displays.
FailureMessage(f) ==
  IF f.rejected
  THEN [msg |-> IF f.msg # "" THEN f.msg
                ELSE "Failed to calculate calories. Please try again.",
        details |-> <<>>]
  ELSE IF f.jsonType
  THEN [msg |-> IF f.data.error # "" THEN f.data.error
                ELSE "Failed to calculate calories",
        details |-> <<>>]
  ELSE [msg |-> "Server returned an error page. Details: ",
        details |-> SubSeq(f.text, 1, IF Len(f.text) < ErrorPageSlice
                                      THEN Len(f.text) ELSE ErrorPageSlice)]

\* A history that grows at its end.
AppendToHistory(id, data, prev) == Append(prev, NewWorkout(id, data))

\* setWorkoutHistory(prev => [newWorkout, ...prev])
AddToHistory(id, data, prev) == <<NewWorkout(id, data)>> \o prev

\* An update computed from the list the handler closed over.
ClosureHistory == closureHistory

\* The prev React hands to the updater: the list as it is now.
PrevHistory == workoutHistory

\* handleSubmit from the settling of fetch on, and the effects of the render
\* it causes.
Settle(f, id) ==
  /\ net # <<>>
  /\ Succeeds(f) => Len(workoutHistory) < MaxHistory
  /\ net' = Tail(net)
  /\ response' = f
  /\ isSubmitting' = FALSE
  /\ alertMsg' = ""
  /\ IF Succeeds(f)
     THEN /\ result' = DataOf(f.data)
          /\ workoutHistory' = AddToHistory(id, DataOf(f.data), PrevHistory)
          /\ localStorage' = SaveHistoryEffect(workoutHistory', localStorage)
          /\ workoutType' = <<>>
          /\ duration' = <<>>
          /\ reps' = <<>>
          /\ runningPace' = <<>>
          /\ weight' = <<>>
          /\ UNCHANGED <<weightUnit, error>>
     ELSE /\ error' = FailureMessage(f)
          /\ UNCHANGED <<fields, result, workoutHistory, localStorage>>
  /\ UNCHANGED <<mounted, closureHistory, gw>>

\* The fetch of the oldest pending call settles: the gateway answers, or the
\* transport fails, or something between answers with a page.
SettleFetch ==
  /\ net # <<>>
  /\ \E id \in Timestamps :
       \/ \E key \in ComposedKeys, outcome \in ComposedOutcomes :
            Settle(FromGateway(POST(Head(net), key, outcome)), id)
       \/ \E f \in {Rejected("Failed to fetch"), ErrorPage(502, ErrorPageText)} :
            Settle(f, id)

\* clearHistory; the button is rendered over a non-empty history.
ClearHistory(confirmed) ==
  /\ mounted
  /\ Len(workoutHistory) > 0
  /\ Quiet
  /\ IF confirmed
     THEN /\ workoutHistory' = <<>>
          /\ localStorage' =
               SaveHistoryEffect(<<>>, [localStorage EXCEPT !.history = Absent])
     ELSE UNCHANGED <<workoutHistory, localStorage>>
  /\ UNCHANGED <<fields, isSubmitting, result, error, net, mounted, gw>>

\* A delete that drops the newest entry, whichever was asked for.
WithoutNewest(history, id) == Tail(history)

\* workoutHistory.filter(workout => workout.id !== id)
WithoutId(history, id) ==
  LET keep(e) == e.id # id
  IN SelectSeq(history, keep)

\* deleteWorkout, from the button of a rendered entry, and the save effect of
\* the render it causes.
DeleteWorkout(id, confirmed) ==
  /\ mounted
  /\ \E i \in DOMAIN workoutHistory : workoutHistory[i].id = id
  /\ Quiet
  /\ IF confirmed
     THEN LET updatedHistory == WithoutId(workoutHistory, id)
              written == IF Len(updatedHistory) > 0
                         THEN [localStorage EXCEPT
                                 !.history = Stringify(updatedHistory)]
                         ELSE [localStorage EXCEPT !.history = Absent]
          IN /\ workoutHistory' = updatedHistory
             /\ localStorage' = SaveHistoryEffect(updatedHistory, written)
     ELSE UNCHANGED <<workoutHistory, localStorage>>
  /\ UNCHANGED <<fields, isSubmitting, result, error, net, mounted, gw>>

EntryIds == Timestamps \cup {StoredEntry.id}

Next ==
  \/ Mount
  \/ \E text \in TypedWorkouts : SetWorkoutType(text)
  \/ \E text \in TypedDurations : SetDuration(text)
  \/ \E text \in TypedReps : SetReps(text)
  \/ \E text \in TypedPaces : SetRunningPace(text)
  \/ \E text \in TypedWeights : SetWeight(text)
  \/ \E unit \in Units : SetWeightUnit(unit)
  \/ Submit
  \/ SettleFetch
  \/ \E confirmed \in BOOLEAN : ClearHistory(confirmed)
  \/ \E id \in EntryIds, confirmed \in BOOLEAN : DeleteWorkout(id, confirmed)

Spec == Init /\ [][Next]_vars

\* The client when every pending fetch settles, by resolving or by rejecting.
LiveSpec == Spec /\ WF_vars(SettleFetch)

\* ------------------------------------------------------------------------
\* The gateway on its own: any caller may POST any body
\* ------------------------------------------------------------------------

YogaText == <<"y", "o", "g", "a">>
PushUpsText == <<"P", "u", "s", "h", "-", "U", "p", "s">>
RunText == <<"R", "u", "n">>

\* A body with no pace and no weight.
Plain(wt, dur, rp) == Body(wt, dur, rp, Undef, Undef, Undef)

GatewayBodies ==
  {MalformedBody, NullBody,
   Plain(Undef, Undef, Undef),
   Plain(Str(YogaText), Undef, Undef),
   Plain(Undef, Whole(30), Undef),
   Plain(Str(<<>>), Whole(30), Undef),
   Plain(Str(YogaText), Whole(30), Undef),
   Plain(Str(YogaText), Num(25, 1), Undef),
   Plain(Str(YogaText), Str(<<"3", "0">>), Undef),
   Plain(Str(YogaText), Whole(0), Undef),
   Plain(Str(YogaText), Whole(-1), Undef),
   Plain(Str(YogaText), Str(<<"a", "b", "c">>), Undef),
   Plain(Str(YogaText), Str(<<"-", "1">>), Undef),
   Plain(Str(YogaText), Bool(TRUE), Undef),
   Plain(Str(YogaText), Null, Whole(20)),
   Plain(Str(PushUpsText), Undef, Whole(20)),
   Plain(Str(PushUpsText), Undef, Null),
   Plain(Whole(5), Whole(30), Undef),
   Body(Str(RunText), Whole(30), Undef, Str(<<"5", ":", "3", "0">>), Str(<<"7", "0">>), Str(Lbs)),
   Body(Str(RunText), Whole(30), Undef, Whole(5), Undef, Undef)}

\* A request arrives; the handler of an earlier one has ended.
GwReceive(body, key) ==
  /\ gw.pc \in {"idle", "done"}
  /\ gw' = [pc |-> "handling", body |-> body, key |-> key,
            outcome |-> Completion(Undef), resp |-> NoResp,
            calls |-> 0, responses |-> 0]
  /\ UNCHANGED clientVars

\* POST runs up to the await of the completion call, or to its response.
GwHandle ==
  /\ gw.pc = "handling"
  /\ LET h == HandleRequest(gw.body, gw.key)
     IN IF h.call
        THEN gw' = [gw EXCEPT !.pc = "calling", !.calls = @ + 1]
        ELSE gw' = [gw EXCEPT !.pc = "done", !.resp = h.resp,
                              !.responses = @ + 1]
  /\ UNCHANGED clientVars

\* The completion call settles and POST runs to its response.
GwComplete(outcome) ==
  /\ gw.pc = "calling"
  /\ gw' = [gw EXCEPT !.pc = "done", !.outcome = outcome,
                      !.resp = CompleteRequest(gw.body, outcome),
                      !.responses = @ + 1]
  /\ UNCHANGED clientVars

GatewayNext ==
  \/ \E body \in GatewayBodies, key \in ApiKeys : GwReceive(body, key)
  \/ GwHandle
  \/ \E outcome \in Outcomes : GwComplete(outcome)

\* The page plays no part: it stays as first rendered.
GatewayInit == Init /\ localStorage = [history |-> Absent, unit |-> Null]

GatewaySpec == GatewayInit /\ [][GatewayNext]_vars

\* The handler runs on once it has started, and the completion call settles.
GatewayLive ==
  GatewaySpec /\ WF_vars(GwHandle) /\ WF_vars(\E outcome \in Outcomes : GwComplete(outcome))

\* ------------------------------------------------------------------------
\* The form on its own: handleSubmit over whatever the fields hold
\* ------------------------------------------------------------------------

FormWorkouts ==
  {<<>>,
   <<" ", " ">>,
   <<"P", "u", "s", "h", "-", "U", "p", "s">>,
   <<" ", "p", "u", "s", "h", " ", "u", "p", "s", " ">>,
   <<"P", "U", "S", "H", "U", "P">>,
   <<"p", "u", "s", "h", "u", "p", "s", "x">>,
   <<"r", "u", "n">>,
   <<" ", "R", "u", "n", "n", "i", "n", "g", " ">>,
   <<"r", "u", "n", "n", "e", "r">>,
   <<"y", "o", "g", "a">>}
FormDurations ==
  {<<>>,
   <<" ">>,
   <<"3", "0">>,
   <<"2", ".", "5">>,
   <<"0">>,
   <<"-", "1">>,
   <<"a", "b", "c">>,
   <<"1", "e", "2">>}
FormReps ==
  {<<>>,
   <<" ">>,
   <<"1", "0">>,
   <<"2", "0">>,
   <<"0">>,
   <<"-", "5">>,
   <<"3", ".", "5">>,
   <<"2", ".", "0">>,
   <<"1", "e", "2">>,
   <<".", "5", "e", "1">>,
   <<"a", "b", "c">>}
FormPaces ==
  {<<>>,
   <<" ", " ">>,
   <<" ", "5", ":", "3", "0", " ">>}

\* A mounted page whose fields the user has filled.
FormInit ==
  /\ workoutType \in FormWorkouts
  /\ duration \in FormDurations
  /\ reps \in FormReps
  /\ runningPace \in FormPaces
  /\ weight \in TypedWeights
  /\ weightUnit = Lbs
  /\ isSubmitting = FALSE
  /\ result = NoResult
  /\ error = NoError
  /\ workoutHistory = <<>>
  /\ localStorage = [history |-> Absent, unit |-> Str(Lbs)]
  /\ alertMsg = ""
  /\ response = NoFetch
  /\ net = <<>>
  /\ mounted = TRUE
  /\ closureHistory = <<>>
  /\ gw = GwIdle

FormNext == Submit

FormSpec == FormInit /\ [][FormNext]_vars

\* ------------------------------------------------------------------------
\* The claims about the gateway
\* ------------------------------------------------------------------------

\* A property the body does not carry (undefined, null or the empty text).
Missing(v) == v.t \in {"undef", "null"} \/ v = Str(<<>>)

Abs(n) == IF n < 0 THEN -n ELSE n

\* A rejection on request-validation grounds.
RejectedOnValidation(resp) ==
  /\ resp.status = 400
  /\ resp.error \in {"Workout type and duration are required",
                     "Duration must be a positive number"}

\* What C1 says is rejected: no workout type, or neither duration nor reps,
\* or a duration that is no number or is not positive.
ClaimedInvalid(body) ==
  \/ Missing(body.workoutType)
  \/ Missing(body.duration) /\ Missing(body.reps)
  \/ /\ ~Missing(body.duration)
     /\ \/ ParseFloat(body.duration).t = "nan"
        \/ NonPositive(ParseFloat(body.duration))

\* C1: request validation answers 400 with an error message exactly when the
\* workout type is missing, or both duration and reps are missing, or the
\* supplied duration is non-numeric or not positive, and in no other case.
C1_ValidationRejectsExactly ==
  (gw.pc = "done" /\ gw.body.kind = "object")
    => (RejectedOnValidation(gw.resp) <=> ClaimedInvalid(gw.body))

\* The credential is absent or does not start with the prefix.
CredentialUnusable(key) ==
  key.t # "str" \/ key.s = <<>> \/ ~StartsWith(key.s, KeyPrefix)

\* C8: a request that passes validation under an absent or wrongly prefixed
\* credential is rejected with a status that is not the status of
\* request-validation errors (400).
C8_CredentialStatusDistinct ==
  (/\ gw.pc = "done"
   /\ gw.body.kind = "object"
   /\ ~ClaimedInvalid(gw.body)
   /\ ~RejectedOnValidation(gw.resp)
   /\ CredentialUnusable(gw.key))
    => (gw.resp.status >= 400 /\ gw.resp.status # 400)

\* A response is JSON of one of the two shapes.
WellFormedResponse(r) ==
  \/ /\ r.status = 200
     /\ r.error = ""
     /\ r.calories # Undef
     /\ r.explanation # Undef
     /\ r.workoutType # Undef
     /\ r.duration # Undef
  \/ /\ r.status \in {400, 500}
     /\ r.error # ""
     /\ r.calories = Undef
     /\ r.explanation = Undef

OneResponse ==
  /\ gw.pc = "done" => gw.responses = 1 /\ WellFormedResponse(gw.resp)
  /\ gw.pc # "done" => gw.responses = 0 /\ gw.resp = NoResp

\* C9: every POST, whatever its body, the credential and the outcome of the
\* completion call, ends in exactly one JSON response: 200 with calories,
\* explanation, workoutType and duration, or 400 or 500 with a non-empty
\* error; a handler that has started reaches its response.
C9_AlwaysOneJsonResponse ==
  /\ []OneResponse
  /\ (gw.pc \in {"handling", "calling"}) ~> (gw.pc = "done")

\* An unparseable reply was answered with a 500.
C9_Witness ==
  /\ gw.pc = "done"
  /\ gw.calls = 1
  /\ gw.outcome = Completion(Str(<<"n", "o", " ", "i", "d", "e", "a">>))
  /\ gw.resp.status = 500
  /\ gw.resp.error = "Could not parse OpenAI response"

\* n is an integer nearest to the number x.
NearestInteger(x, n) ==
  /\ IsInteger(n)
  /\ 2 * Abs(x.m - n.m * Pow10(x.k)) <= Pow10(x.k)

\* C10: a 200 is returned only when the reply's calorie field is a number,
\* its calories are then that figure rounded to the nearest integer, an
\* integer >= 0; a reply whose calorie field is missing or is no number gets
\* an error response.
C10_OkOnlyForNumericCalories ==
  (/\ gw.pc = "done"
   /\ gw.calls = 1
   /\ gw.outcome.kind = "completion"
   /\ gw.outcome.content.t = "str")
    => LET field == ParseReply(gw.outcome.content.s).calories
       IN /\ gw.resp.status = 200
               => /\ field.t = "num"
                  /\ NearestInteger(field, gw.resp.calories)
                  /\ gw.resp.calories.m >= 0
          /\ field.t # "num" => gw.resp.status # 200

\* ------------------------------------------------------------------------
\* The claims about the client
\* ------------------------------------------------------------------------

\* C2: every request the client sends carries exactly one of reps and
\* duration: reps, an integer, and no duration when the push-up predicate
\* holds for the workout type; duration, a number, and no reps otherwise;
\* runningPace only for a workout type that is run or running once trimmed
\* and lowercased, with a non-blank pace.
C2_RequestCarriesOneMeasure ==
  \A i \in DOMAIN net :
    /\ IF IsPushUp(workoutType)
       THEN IsInteger(net[i].reps) /\ net[i].duration = Undef
       ELSE net[i].duration.t = "num" /\ net[i].reps = Undef
    /\ net[i].runningPace # Undef
         => /\ ToLowerCase(Trim(workoutType)) \in {RunWord, RunningWord}
            /\ Trim(runningPace) # <<>>

\* The text of a number input read as the number it denotes.
PositiveNumberText(text) == Positive(StringToNumber(text))

PositiveIntegerText(text) ==
  Positive(StringToNumber(text)) /\ IsInteger(StringToNumber(text))

\* What C3 says a submit needs to send a request.
ValidForm ==
  /\ Trim(workoutType) # <<>>
  /\ IF IsPushUp(workoutType)
     THEN PositiveIntegerText(reps)
     ELSE PositiveNumberText(duration)

\* C3: a submit issues a network request if and only if the workout type is
\* non-blank and, in push-up mode, reps is a positive integer or, outside it,
\* duration is a positive number; every other submit leaves the network
\* untouched and raises an alert.
C3_SubmitSendsIffValid ==
  [][/\ ValidForm
          => /\ Len(net') = Len(net) + 1
             /\ SubSeq(net', 1, Len(net)) = net
             /\ alertMsg' = ""
     /\ ~ValidForm
          => /\ net' = net
             /\ alertMsg' # ""
             /\ ~isSubmitting']_vars

\* A submit with 3.5 reps was refused.
C3_Witness ==
  /\ IsPushUp(workoutType)
  /\ reps = <<"3", ".", "5">>
  /\ alertMsg = "Please enter a valid number of reps (must be a positive whole number)"
  /\ net = <<>>

\* C4: at most one estimation request is in flight; a valid submission
\* issues exactly one call, the submitting flag is true exactly while that
\* call is unresolved, and no call is issued while the flag is true.
C4_OneRequestInFlight ==
  /\ [](Len(net) <= 1 /\ (isSubmitting <=> Len(net) = 1))
  /\ [][Len(net') > Len(net)
          => ~isSubmitting /\ isSubmitting' /\ Len(net') = Len(net) + 1]_vars

C4_Witness == isSubmitting /\ Len(net) = 1 /\ Len(workoutHistory) = 1

\* The step in which a pending request settles with a 2xx JSON response.
SuccessStep ==
  /\ Len(net') < Len(net)
  /\ ~response'.rejected
  /\ response'.jsonType
  /\ response'.status >= 200
  /\ response'.status <= 299

\* The step in which a pending request settles in any other way.
FailureStep == Len(net') < Len(net) /\ ~SuccessStep

\* The entry is built from the response.
BuiltFrom(entry, data) ==
  /\ entry.id \in Timestamps
  /\ entry.workoutType = data.workoutType
  /\ entry.duration = data.duration
  /\ entry.calories = data.calories
  /\ entry.explanation = data.explanation

\* C5: when a request succeeds, the displayed result becomes the response,
\* the history becomes one new entry built from the response followed by the
\* previous history in its order, and workoutType, duration, reps,
\* runningPace and weight are cleared while weightUnit is unchanged.
C5_SuccessEffects ==
  [][SuccessStep =>
       /\ result'.set
       /\ result'.calories = response'.data.calories
       /\ result'.explanation = response'.data.explanation
       /\ result'.workoutType = response'.data.workoutType
       /\ result'.duration = response'.data.duration
       /\ Len(workoutHistory') = Len(workoutHistory) + 1
       /\ BuiltFrom(workoutHistory'[1], response'.data)
       /\ Tail(workoutHistory') = workoutHistory
       /\ workoutType' = <<>>
       /\ duration' = <<>>
       /\ reps' = <<>>
       /\ runningPace' = <<>>
       /\ weight' = <<>>
       /\ weightUnit' = weightUnit]_vars

\* A success over a history that already had an entry, with kg chosen.
C5_Witness ==
  /\ result.set
  /\ response.status = 200
  /\ Len(workoutHistory) = 2
  /\ workoutHistory[2] = StoredEntry
  /\ weightUnit = Kg

\* C6: when a request fails (a non-2xx status, a content type that is not
\* JSON, or a network error) the error message is displayed, neither the
\* submission nor the handling of the failure changes the history list or
\* its persisted record, and no result is displayed.
C6_FailureEffects ==
  /\ [](isSubmitting => ~result.set)
  /\ [][/\ Len(net') > Len(net) => UNCHANGED <<workoutHistory, localStorage>>
        /\ FailureStep =>
             /\ error'.msg # ""
             /\ response'.rejected => error'.msg = response'.msg
             /\ response'.jsonType => error'.msg = response'.data.error
             /\ ~result'.set
             /\ UNCHANGED <<workoutHistory, localStorage>>]_vars

\* The gateway's 400 was shown over a history that kept its entry.
C6_Witness ==
  /\ response.jsonType
  /\ response.status = 400
  /\ error.msg = response.data.error
  /\ error.msg # ""
  /\ ~result.set
  /\ workoutHistory = <<StoredEntry>>

\* C7: whenever the history is non-empty the persisted record is the full
\* current history; the client never writes an empty list; and after a
\* confirmed delete of the only remaining entry or a confirmed clear-all no
\* persisted history record exists.
C7_PersistedHistory ==
  /\ [](Len(workoutHistory) > 0 => localStorage.history = Stringify(workoutHistory))
  /\ [][/\ localStorage'.history # localStorage.history
             => ~(localStorage'.history.kind = "list"
                  /\ Len(localStorage'.history.list) = 0)
        /\ Len(workoutHistory) > 0 /\ Len(workoutHistory') = 0
             => localStorage'.history = Absent]_vars

\* The only entry, added by a submission, was deleted again.
C7_Witness ==
  /\ result.set
  /\ workoutHistory = <<>>
  /\ localStorage.history = Absent

\* ------------------------------------------------------------------------
\* The claims about the fallback, the history and startup
\* ------------------------------------------------------------------------

HasDigit(s) == \E i \in DOMAIN s : IsDigit(s[i])

\* Where the first run of decimal digits of s starts.
FirstRunAt(s) ==
  CHOOSE i \in DOMAIN s : IsDigit(s[i]) /\ \A j \in 1..(i - 1) : ~IsDigit(s[j])

\* C11: when the completion reply is not valid JSON, the gateway succeeds
\* with calories equal to the first run of decimal digits of the raw text and
\* explanation equal to the raw text, for every reply that has a digit; for
\* a reply without a digit the call fails with a response-parse error.
C11_FallbackOnFirstDigits ==
  (/\ gw.pc = "done"
   /\ gw.calls = 1
   /\ gw.outcome.kind = "completion"
   /\ gw.outcome.content.t = "str"
   /\ gw.outcome.content.s # <<>>
   /\ ~JsonParse(gw.outcome.content.s).ok)
    => IF HasDigit(gw.outcome.content.s)
       THEN /\ gw.resp.status = 200
            /\ gw.resp.calories =
                 Whole(DigitsValue(gw.outcome.content.s,
                                   FirstRunAt(gw.outcome.content.s),
                                   DigitRun(gw.outcome.content.s,
                                            FirstRunAt(gw.outcome.content.s))))
            /\ gw.resp.explanation = gw.outcome.content
       ELSE /\ gw.resp.status = 500
            /\ gw.resp.error = "Could not parse OpenAI response"

Populated(v) == v.t \notin {"undef", "null"}

\* C12: in every reachable state every entry of the workout history has
\* exactly one of duration and reps populated: reps when its workout type
\* matches the push-up predicate, duration otherwise.
C12_EntriesHaveOneMeasure ==
  \A i \in DOMAIN workoutHistory :
    /\ workoutHistory[i].workoutType.t = "str"
    /\ IF IsPushUp(workoutHistory[i].workoutType.s)
       THEN /\ Populated(workoutHistory[i].reps)
            /\ ~Populated(workoutHistory[i].duration)
       ELSE /\ Populated(workoutHistory[i].duration)
            /\ ~Populated(workoutHistory[i].reps)

\* A run was added in front of the stored entry, and a push-up submission
\* has since been refused by the gateway.
C12_Witness ==
  /\ Len(workoutHistory) = 2
  /\ workoutHistory[1].workoutType = Str(RunText)
  /\ workoutHistory[1].duration = Whole(30)
  /\ IsPushUp(workoutType)
  /\ response.status = 400

\* C13: at startup the history equals the persisted list when the persisted
\* record parses, and is the empty list when the record is missing or
\* unparseable; an unparseable record never aborts startup, and the
\* weight-unit preference is still loaded after it.
C13_StartupLoad ==
  [][~mounted /\ mounted' =>
       /\ localStorage.history.kind = "list"
            => workoutHistory' = localStorage.history.list
       /\ localStorage.history.kind \in {"absent", "corrupt"}
            => workoutHistory' = <<>>
       /\ localStorage.unit.t = "str" /\ localStorage.unit.s # <<>>
            => weightUnit' = localStorage.unit.s]_vars

\* Startup over an unparseable record and a stored preference for kg.
C13_Witness ==
  /\ mounted
  /\ localStorage.history = Corrupt
  /\ workoutHistory = <<>>
  /\ weightUnit = Kg
  /\ workoutType = <<>>
  /\ ~isSubmitting

\* The entries of history whose id is not x, in their order.
Others(history, x) ==
  LET other(e) == e.id # x
  IN SelectSeq(history, other)

\* C14: when the user declines the confirmation for clear-all or for
\* delete-one, the history list and the persisted history record are
\* unchanged; when the user confirms delete-one for id X, the history becomes
\* the previous history without the entries whose id is X, the others kept
\* in order.
C14_ConfirmationGate ==
  [][/\ ClearHistory(FALSE)
          => UNCHANGED <<workoutHistory, localStorage>>
     /\ \A x \in EntryIds :
          /\ DeleteWorkout(x, FALSE)
               => UNCHANGED <<workoutHistory, localStorage>>
          /\ DeleteWorkout(x, TRUE)
               => workoutHistory' = Others(workoutHistory, x)]_vars

\* The entry a submission added was deleted; the stored one stayed.
C14_Witness ==
  /\ result.set
  /\ workoutHistory = <<StoredEntry>>
  /\ localStorage.history = Stringify(<<StoredEntry>>)
  /\ ~isSubmitting

Normalized(text) ==
  LET kept(c) == c \notin {" ", "\t", "\n", "\r", "-"}
  IN SelectSeq(ToLowerCase(text), kept)

\* C16, as the specification states it: the push-up predicate is true for
\* every string that normalizes to pushup or pushups and false for every
\* other string, the empty and the blank ones included.
C16_PushUpPredicateExact ==
  IsPushUp(workoutType) <=> Normalized(workoutType) \in {PushupWord, PushupsWord}

\* C16, amended: the push-up predicate is true exactly for the strings whose
\* normalized text starts with pushup (pushup and pushups among them), and
\* false for every other string, the empty and the blank ones included.
C16_PushUpPredicatePrefix ==
  IsPushUp(workoutType) <=>
    /\ Len(Normalized(workoutType)) >= 6
    /\ SubSeq(Normalized(workoutType), 1, 6) = PushupWord

\* A submit of "pushupsx" with no reps was handled in push-up mode.
C16_Witness ==
  /\ workoutType = <<"p", "u", "s", "h", "u", "p", "s", "x">>
  /\ alertMsg = "Please fill in the number of reps"
  /\ net = <<>>

\* ------------------------------------------------------------------------
\* The claims about the composed system
\* ------------------------------------------------------------------------

\* The step in which the gateway's answer to a pending push-up request is
\* handled.
PushUpAnswered ==
  /\ Len(net') < Len(net)
  /\ IsPushUp(workoutType)
  /\ ~response'.rejected
  /\ response'.jsonType

\* C17: with the client and the gateway composed, every push-up submission
\* that passes client validation is answered by the gateway with a 400
\* request-validation error, the request carrying reps and no duration: the
\* client shows the error, no result is displayed and no push-up entry is
\* ever added to the history.
C17_PushUpAlwaysRefused ==
  /\ [](\A i \in DOMAIN net :
          IsPushUp(workoutType)
            => net[i].duration = Undef /\ net[i].reps # Undef)
  /\ [](\A i \in DOMAIN workoutHistory :
          ~IsPushUp(workoutHistory[i].workoutType.s))
  /\ [][PushUpAnswered =>
          /\ response'.status = 400
          /\ response'.data.error = "Workout type and duration are required"
          /\ error'.msg = "Workout type and duration are required"
          /\ ~result'.set
          /\ workoutHistory' = workoutHistory]_vars

\* A push-up submission of 20 reps was refused.
C17_Witness ==
  /\ IsPushUp(workoutType)
  /\ reps = <<"2", "0">>
  /\ response.jsonType
  /\ response.status = 400
  /\ error.msg = "Workout type and duration are required"
  /\ ~result.set
  /\ ~isSubmitting

\* C18: for every POST the gateway calls the completion service at most
\* once, and only after request validation and both credential checks have
\* passed: exactly one call for a request that passes all of them, none for a
\* request that any of them rejects; a failed call is not retried.
C18_OneCompletionCall ==
  /\ gw.calls <= 1
  /\ gw.pc = "done"
       => (gw.calls = 1 <=> /\ gw.body.kind = "object"
                            /\ ValidateInput(gw.body) = NoResp
                            /\ CheckApiKey(gw.key) = NoResp)

\* C19: every submission that starts a request reaches, once the network
\* call settles by resolving or by rejecting, a state where the submitting
\* flag is false and exactly one of result and error is set; result and
\* error are never both set.
C19_SubmissionSettles ==
  /\ [](~(result.set /\ error.msg # ""))
  /\ isSubmitting ~> /\ ~isSubmitting
                     /\ result.set \/ error.msg # ""
                     /\ ~(result.set /\ error.msg # "")

\* A rejected fetch left the error and no result.
C19_Witness ==
  /\ ~isSubmitting
  /\ response.rejected
  /\ error.msg = "Failed to fetch"
  /\ ~result.set
  /\ net = <<>>

\* C20: a confirmed delete-one or clear-all performed while an estimation
\* request is in flight is not undone when the response arrives: after the
\* successful response is handled, the history is the new entry followed by
\* exactly the entries that were in it just before the response was handled,
\* and the persisted record equals that history.
C20_InFlightDeleteKept ==
  [][SuccessStep =>
       /\ Len(workoutHistory') = Len(workoutHistory) + 1
       /\ BuiltFrom(workoutHistory'[1], response'.data)
       /\ Tail(workoutHistory') = workoutHistory
       /\ localStorage'.history = Stringify(workoutHistory')]_vars

\* The stored entry was in the list when the run was submitted, was deleted
\* while the request was pending, and is not back after the success.
C20_Witness ==
  /\ ~isSubmitting
  /\ response.status = 200
  /\ result.set
  /\ closureHistory = <<StoredEntry>>
  /\ Len(workoutHistory) = 1
  /\ workoutHistory[1].workoutType = Str(RunText)
  /\ localStorage.history = Stringify(workoutHistory)

====
